---- MODULE Spec2Model ----
(***************************************************************************)
(* Model of the notebook database of zk: sqlite.Open / DB.Migrate          *)
(* (internal/core/zk/zk.go, package sqlite) and Container.Database /       *)
(* Container.index (internal/adapter/container.go).                        *)
(*                                                                         *)
(* The database file is the record `store` (last committed state).  A      *)
(* transaction works on the copy `tx` and replaces `store` on commit.      *)
(* The DB handle is used sequentially by Container.Database, so it owns    *)
(* one connection, whose foreign_keys pragma is the variable foreign_keys. *)
(***************************************************************************)
EXTENDS Integers, Sequences, FiniteSets, Bags, TLC

\* ---------------------------------------------------------------- bounds
MaxStmts == 4         \* row statements executed over all index runs
MaxNoteId == 2        \* cap of the notes AUTOINCREMENT sequence
MaxLinkId == 2        \* cap of the links AUTOINCREMENT sequence
MaxCollectionId == 2  \* cap of the collections AUTOINCREMENT sequence
MaxAssociationId == 2 \* cap of the notes_collections AUTOINCREMENT sequence

\* ------------------------------------------------------------- constants
CurrentVersion == 3   \* last PRAGMA user_version written by Migrate
NULL == 0             \* SQL NULL in an INTEGER column (row ids start at 1)
NullKind == "<null>"  \* SQL NULL in the collections.kind column
CollectionKindTag == "tag"

Paths == {"a.md", "b.md"}
Titles == {"T"}
Bodies == {"x", "y"}
Hrefs == {"h"}
LinkTitles == {"l"}
Names == {"n"}
Kinds == {CollectionKindTag, NullKind}

VARIABLES
  store,            \* the database file: last committed state
  tx,               \* working state of the open transaction
  txOpen,           \* a transaction is open on the connection
  foreign_keys,     \* PRAGMA foreign_keys of the connection of the DB handle
  pc,               \* position inside Container.Database
  zkErr,            \* c.zkErr != nil
  forceIndexing,    \* argument of Container.Database
  version,          \* local `version` of Migrate
  needsReindexing,  \* named result of Migrate
  err,              \* error being returned ("" is nil)
  force,            \* argument passed to Container.index
  indexed,          \* Container.index was entered during this call
  step,             \* next `if version <= step` block of Migrate
  failed,           \* a statement of this Migrate call failed
  txBase,           \* store when the last WithTransaction call began
  applied,          \* upgrade steps of the last Migrate call, until index begins
  stmts,            \* row statements executed so far
  lastStmt,         \* the last row statement and its outcome
  observed,         \* result of the last query since a transaction boundary
  indexErr,         \* error note.Index returned to the closure of index
  bar,              \* the progress bar of Container.index
  \* note.Index over the files of the notebook
  files,            \* content of each note file of the notebook, or Absent
  changes,          \* the changes the diff of the run found, in path order
  parsed,           \* changes whose file is parsed, in the order workers finished
  done,             \* number of changes applied to the store in this run
  stats,            \* IndexingStats of the run
  progress,         \* the changes onChange was called with, in call order
  prev,             \* the last index run committed and no file changed since
  \* zk.Open and zk.Create over the file tree
  disk,             \* the `.zk` directory of each directory of the file tree
  res,              \* the last call of zk.Open or zk.Create and its result
  created,          \* the paths for which zk.Create returned nil
  \* the configuration: ParseConfig, Zk.DirAt, Container.Paginate
  doc,              \* the config.toml document
  conf,             \* the Config parsed from it
  out,              \* the last call of DirAt or Paginate and its result
  \* Container.OpenNotebook
  container,        \* notebook, notebookErr, zk, zkErr, WorkingDir, Config
  environ,          \* ZK_NOTEBOOK_DIR in the environment of the process
  opened            \* the call of OpenNotebook and the paths it tried
  
dbVars == <<store, tx, txOpen, foreign_keys, pc, zkErr, forceIndexing,
            version, needsReindexing, err, force, indexed, step, failed,
            txBase, applied, stmts, lastStmt, observed, indexErr, bar>>

indexVars == <<files, changes, parsed, done, stats, progress, prev>>

\* The variables Container.Database, Migrate and the row statements leave
\* alone.
zkVars == <<disk, res, created>>

configVars == <<doc, conf, out>>

containerVars == <<container, environ, opened>>

\* The variables the database and the index run leave alone.
otherVars == <<zkVars, configVars, containerVars>>

\* The variables Container.Database, Migrate and the row statements leave
\* alone.
notDb == <<indexVars, otherVars>>

\* The variables zk.Open and zk.Create leave alone.
notZk == <<dbVars, indexVars, configVars, containerVars>>

\* The variables ParseConfig, DirAt and Paginate leave alone.
notConfig == <<dbVars, indexVars, zkVars, containerVars>>

\* The variables OpenNotebook leaves alone: all but the fields it assigns,
\* c.zkErr among them.
notContainer == <<store, tx, txOpen, foreign_keys, pc, forceIndexing,
                  version, needsReindexing, err, force, indexed, step, failed,
                  txBase, applied, stmts, lastStmt, observed, indexErr, bar,
                  indexVars, zkVars, configVars>>

vars == <<dbVars, indexVars, otherVars>>

\* ----------------------------------------------------------------- schema
\* The statements of the three ExecStmts calls of Migrate, in order.
CREATE_IF_NOT_EXISTS == "CREATE IF NOT EXISTS"
CREATE == "CREATE"
ADD_COLUMN == "ALTER TABLE ADD COLUMN"
PRAGMA_USER_VERSION == "PRAGMA user_version ="

Stmt(op, obj, on, ver) == [op |-> op, obj |-> obj, on |-> on, ver |-> ver]

MigrationStmts(k) ==
  CASE k = 0 -> <<
         Stmt(CREATE_IF_NOT_EXISTS, "notes", "", 0),
         Stmt(CREATE_IF_NOT_EXISTS, "index_notes_checksum", "notes", 0),
         Stmt(CREATE_IF_NOT_EXISTS, "index_notes_path", "notes", 0),
         Stmt(CREATE_IF_NOT_EXISTS, "links", "", 0),
         Stmt(CREATE_IF_NOT_EXISTS, "index_links_source_id_target_id", "links", 0),
         Stmt(CREATE_IF_NOT_EXISTS, "notes_fts", "", 0),
         Stmt(CREATE_IF_NOT_EXISTS, "trigger_notes_ai", "notes", 0),
         Stmt(CREATE_IF_NOT_EXISTS, "trigger_notes_ad", "notes", 0),
         Stmt(CREATE_IF_NOT_EXISTS, "trigger_notes_au", "notes", 0),
         Stmt(PRAGMA_USER_VERSION, "", "", 1) >>
    [] k = 1 -> <<
         Stmt(CREATE_IF_NOT_EXISTS, "collections", "", 0),
         Stmt(CREATE_IF_NOT_EXISTS, "index_collections", "collections", 0),
         Stmt(CREATE_IF_NOT_EXISTS, "notes_collections", "", 0),
         Stmt(CREATE_IF_NOT_EXISTS, "index_notes_collections", "notes_collections", 0),
         Stmt(CREATE, "notes_with_metadata", "", 0),
         Stmt(PRAGMA_USER_VERSION, "", "", 2) >>
    [] k = 2 -> <<
         Stmt(ADD_COLUMN, "notes.metadata", "notes", 0),
         Stmt(ADD_COLUMN, "links.snippet_start", "links", 0),
         Stmt(ADD_COLUMN, "links.snippet_end", "links", 0),
         Stmt(PRAGMA_USER_VERSION, "", "", 3) >>
    [] OTHER -> << >>

\* Does the statement fail on database s for a reason of the schema itself?
StmtFails(s, st) ==
  \/ st.on # "" /\ st.on \notin s.schema
  \/ st.op \in {CREATE, ADD_COLUMN} /\ st.obj \in s.schema

\* The database after statement st succeeded.
ExecStmt(s, st) ==
  IF st.op = PRAGMA_USER_VERSION
    THEN [s EXCEPT !.user_version = st.ver]
    ELSE [s EXCEPT !.schema = @ \cup {st.obj}]

\* tx.ExecStmts: the database after the first n statements of sts.
RECURSIVE ExecStmts(_, _, _)
ExecStmts(s, sts, n) ==
  IF n = 0 THEN s ELSE ExecStmt(ExecStmts(s, sts, n - 1), sts[n])

\* The statements of sts run in order and stop at the first one that fails:
\* the n-th statement can be reached when none before it fails by itself.
RECURSIVE Reaches(_, _, _)
Reaches(s, sts, n) ==
  IF n = 0 THEN TRUE
  ELSE /\ Reaches(s, sts, n - 1)
       /\ ~StmtFails(ExecStmts(s, sts, n - 1), sts[n])

\* The schema objects a database of user_version v holds.
RECURSIVE SchemaAt(_)
SchemaAt(v) ==
  IF v <= 0 THEN {}
  ELSE SchemaAt(v - 1) \cup
       ({MigrationStmts(v - 1)[i].obj : i \in 1..Len(MigrationStmts(v - 1))} \ {""})

EmptyDB(v) ==
  [user_version |-> v,
   schema       |-> SchemaAt(v),
   notes        |-> {},
   links        |-> {},
   fts          |-> EmptyBag,
   collections  |-> {},
   notes_collections |-> {},
   seq          |-> [notes |-> 0, links |-> 0, collections |-> 0,
                     notes_collections |-> 0]]

NoStmt == [op |-> "", result |-> "", id |-> 0, cascaded |-> 0, nulled |-> 0]
NoQuery == [taken |-> FALSE]

\* progressbar.NewOptions: nothing added, not cleared.
NewBar == [n |-> 0, description |-> "", cleared |-> 0]

\* `var stats note.IndexingStats`: the zero value.
NoStats == [Added |-> 0, Modified |-> 0, Removed |-> 0]

\* A note file that does not exist.
Absent == "<absent>"

\* No index run has taken place.
NoRun ==
  /\ changes = << >>
  /\ parsed = << >>
  /\ done = 0
  /\ stats = NoStats
  /\ progress = << >>
  /\ prev = "none"

\* ------------------------------------------------------------ file tree
MaxDepth == 3         \* depth of the deepest directory of the file tree

\* An absolute, clean path is the sequence of its elements: "/" is << >>.
\* The file tree is the chain /, /a, /a/a, ...
Root == << >>

Dirs == {[i \in 1..n |-> "a"] : n \in 0..MaxDepth}

\* The "" returned in place of a path beside an error.
NoPath == <<"">>

\* The `.zk` directory of a directory: absent; or present, with its
\* config.toml (none, the one of a user, or defaultConfig) and with or
\* without templates/default.md.
DotZk(zk, config, template) ==
  [zk |-> zk, config |-> config, template |-> template]

NoDotZk == DotZk(FALSE, "none", FALSE)

NoErr == [kind |-> "nil", path |-> NoPath, msg |-> ""]

NoRes == [op |-> "", path |-> NoPath, io |-> FALSE, wrote |-> FALSE,
          root |-> NoPath, err |-> NoErr]

\* Neither zk.Open nor zk.Create was called on a tree without notebook.
NoCall ==
  /\ disk = [d \in Dirs |-> NoDotZk]
  /\ res = NoRes
  /\ created = {}

\* No configuration file was read.
NoConfig ==
  /\ doc = [read |-> FALSE]
  /\ conf = [parsed |-> FALSE]
  /\ out = [op |-> ""]

\* The configuration NewContainer holds: the global one of the user.
GlobalConfig == [parent |-> "", file |-> "global", of |-> NoPath]

\* A path given to the program: absolute, or relative to Cwd.
Path(abs, names) == [abs |-> abs, names |-> names]

NoZk == [Path |-> NoPath, Config |-> GlobalConfig, workingDir |-> NoPath]

\* A WorkingDir that is not set.
NoWorkingDir == Path(FALSE, NoPath)

\* A nil *core.Notebook.
NoNotebook == [opened |-> FALSE, path |-> NoWorkingDir]

\* The Container NewContainer returns.
NewContainer ==
  [notebook |-> NoNotebook, notebookErr |-> NoErr, zk |-> NoZk,
   zkErr |-> NoErr, WorkingDir |-> NoWorkingDir, Config |-> GlobalConfig]

NoOpenNotebook ==
  [op |-> "", searchPaths |-> << >>, tried |-> << >>, fails |-> << >>,
   bad |-> NoPath]

\* OpenNotebook was not called.
NoOpen ==
  /\ container = NewContainer
  /\ environ = NoPath
  /\ opened = NoOpenNotebook

\* A database file of any schema version without rows, and a Container whose
\* notebook was opened or not.
InitDb ==
  /\ store \in {EmptyDB(v) : v \in 0..CurrentVersion}
  /\ tx = store
  /\ txOpen = FALSE
  /\ foreign_keys = FALSE
  /\ pc = "idle"
  /\ zkErr \in BOOLEAN
  /\ forceIndexing = FALSE
  /\ version = 0
  /\ needsReindexing = FALSE
  /\ err = ""
  /\ force = FALSE
  /\ indexed = FALSE
  /\ step = 0
  /\ failed = FALSE
  /\ txBase = store
  /\ applied = << >>
  /\ stmts = 0
  /\ lastStmt = NoStmt
  /\ observed = NoQuery
  /\ indexErr = ""
  /\ bar = NewBar

\* The database under any row statement: the note files play no part.
Init ==
  /\ InitDb
  /\ files = [p \in Paths |-> Absent]
  /\ NoRun
  /\ NoCall
  /\ NoConfig
  /\ NoOpen

\* ------------------------------------------------------- sqlite.DB, Migrate
\* An open that leaves the connection with the default foreign_keys = OFF.
open_NoPragma == FALSE

\* open: the connection of a new DB handle, after PRAGMA foreign_keys = ON.
open == TRUE

\* db.WithTransaction, entry: the closure works on a copy of the database.
Begin ==
  /\ tx' = store
  /\ txOpen' = TRUE
  /\ txBase' = store
  /\ observed' = NoQuery

\* db.WithTransaction, exit: commit when the closure returned nil, roll back
\* when it returned the error e.
End(e) ==
  /\ store' = IF e = "" THEN tx ELSE store
  /\ tx' = store'
  /\ txOpen' = FALSE
  /\ observed' = NoQuery

\* Container.Database up to sqlite.Open: returns c.zkErr, or the error of
\* Open, or holds a DB handle and calls db.Migrate.
Database ==
  /\ pc \in {"idle", "returned"}
  /\ \E f \in BOOLEAN : forceIndexing' = f
  /\ indexed' = FALSE
  /\ force' = FALSE
  /\ needsReindexing' = FALSE
  /\ failed' = FALSE
  /\ applied' = << >>
  /\ lastStmt' = NoStmt
  /\ indexErr' = ""
  /\ observed' = NoQuery
  /\ step' = 0
  /\ version' = 0
  /\ bar' = NewBar
  /\ IF zkErr
       THEN /\ pc' = "returned"
            /\ err' = "zkErr"
            /\ UNCHANGED foreign_keys
       ELSE \E ok \in BOOLEAN :
              IF ok THEN /\ pc' = "opened"
                         /\ err' = ""
                         /\ foreign_keys' = open
                    ELSE /\ pc' = "returned"
                         /\ err' = "failed to open the database"
                         /\ UNCHANGED foreign_keys
  /\ UNCHANGED <<store, tx, txOpen, zkErr, txBase, stmts>>
  /\ UNCHANGED notDb

\* Migrate: WithTransaction begins and the closure reads PRAGMA user_version.
MigrateBegin ==
  /\ pc = "opened"
  /\ Begin
  /\ version' = store.user_version
  /\ step' = 0
  /\ pc' = "migrate"
  /\ UNCHANGED <<store, foreign_keys, zkErr, forceIndexing, needsReindexing,
                 err, force, indexed, failed, applied, stmts,
                 lastStmt, indexErr, bar>>
  /\ UNCHANGED notDb

\* A block that carries on after a failed ExecStmts.
ReturnsOnError_Ignored(e) == FALSE

\* `if err != nil { return err }` after each ExecStmts call.
ReturnsOnError(e) == e # ""

\* A block guarded by `version < k`.
StepApplies_Strict(v, k) == v < k

\* `if version <= k`: the block of the upgrade step k -> k + 1 runs.
StepApplies(v, k) == v <= k

\* One `if version <= step { err = tx.ExecStmts(...) ... }` block of the
\* closure.  n statements of the block succeed; when n is less than the
\* length of the block, statement n + 1 failed.
MigrateStep ==
  /\ pc = "migrate"
  /\ step < CurrentVersion
  /\ LET sts == MigrationStmts(step) IN
     IF StepApplies(version, step)
       THEN \E n \in 0..Len(sts) :
              /\ Reaches(tx, sts, n)
              /\ tx' = ExecStmts(tx, sts, n)
              /\ LET e == IF n < Len(sts) THEN "statement failed" ELSE "" IN
                 /\ failed' = (failed \/ e # "")
                 /\ IF ReturnsOnError(e)
                      THEN /\ pc' = "migrate_return"
                           /\ err' = e
                           /\ UNCHANGED <<step, needsReindexing, applied>>
                      ELSE /\ pc' = "migrate"
                           /\ err' = ""
                           /\ step' = step + 1
                           /\ applied' = Append(applied, step)
                           /\ needsReindexing' = (needsReindexing \/ step = 2)
       ELSE /\ step' = step + 1
            /\ UNCHANGED <<tx, pc, err, failed, needsReindexing, applied>>
  /\ UNCHANGED <<store, txOpen, foreign_keys, zkErr, forceIndexing,
                 version, force, indexed, txBase, stmts, lastStmt,
                 observed, indexErr, bar>>
  /\ UNCHANGED notDb

\* The closure returns (nil after the last block, or the error of a block)
\* and WithTransaction commits or rolls back; Migrate returns
\* (needsReindexing, err); the locals of the closure are gone.
MigrateReturn ==
  /\ \/ pc = "migrate" /\ step = CurrentVersion
     \/ pc = "migrate_return"
  /\ End(err)
  /\ pc' = "migrated"
  /\ version' = 0
  /\ step' = 0
  /\ UNCHANGED <<foreign_keys, zkErr, forceIndexing,
                 needsReindexing, err, force, indexed, failed, txBase,
                 applied, stmts, lastStmt, indexErr, bar>>
  /\ UNCHANGED notDb

\* Container.Database: `if err != nil` after db.Migrate.
DatabaseMigrateFailed ==
  /\ pc = "migrated"
  /\ err # ""
  /\ pc' = "returned"
  /\ err' = "failed to migrate the database"
  /\ UNCHANGED <<store, tx, txOpen, foreign_keys, zkErr, forceIndexing,
                 version, needsReindexing, force, indexed, step, failed,
                 txBase, applied, stmts, lastStmt, observed, indexErr, bar>>
  /\ UNCHANGED notDb

\* ------------------------------------------------------------ table rows
NoteIds(s) == {r.id : r \in s.notes}

Note(id, path, title, body) ==
  [id |-> id, path |-> path, title |-> title, body |-> body]

Link(id, source, target, title, href) ==
  [id |-> id, source_id |-> source, target_id |-> target, title |-> title,
   href |-> href]

Collection(id, kind, name) == [id |-> id, kind |-> kind, name |-> name]

Association(id, note, collection) ==
  [id |-> id, note_id |-> note, collection_id |-> collection]

Outcome(s, result, id, cascaded, nulled) ==
  [db |-> s, result |-> result, id |-> id, cascaded |-> cascaded,
   nulled |-> nulled]

\* A notes table declared without UNIQUE(path).
notes_unique_path_None(s, id, path) == TRUE

\* notes: UNIQUE(path).  May the row `id` hold `path`?
notes_unique_path(s, id, path) ==
  \A r \in s.notes : r.path = path => r.id = id

\* links: source_id NOT NULL REFERENCES notes(id), target_id REFERENCES
\* notes(id); enforced only on a connection with foreign_keys = ON.
links_references(s, fk, source, target) ==
  fk => /\ source \in NoteIds(s)
        /\ target = NULL \/ target \in NoteIds(s)

\* A links table whose target_id is declared ON DELETE CASCADE too.
links_on_delete_CascadeTarget(links, fk, id) ==
  IF fk
    THEN {k \in links : k.source_id # id /\ k.target_id # id}
    ELSE links

\* links: ON DELETE CASCADE of source_id and ON DELETE SET NULL of
\* target_id, applied when the note `id` is deleted.
links_on_delete(links, fk, id) ==
  IF fk
    THEN {IF l.target_id = id THEN [l EXCEPT !.target_id = NULL] ELSE l :
            l \in {k \in links : k.source_id # id}}
    ELSE links

\* notes_collections: note_id NOT NULL REFERENCES notes(id), collection_id
\* NOT NULL REFERENCES collections(id).
notes_collections_references(s, fk, note, collection) ==
  fk => /\ note \in NoteIds(s)
        /\ collection \in {c.id : c \in s.collections}

\* notes_collections: ON DELETE CASCADE of note_id.
notes_collections_on_delete(rows, fk, id) ==
  IF fk THEN {a \in rows : a.note_id # id} ELSE rows

\* collections: kind TEXT NO NULL, name TEXT NOT NULL, UNIQUE(kind, name).
\* The kind column is nullable, and a UNIQUE constraint treats every NULL
\* as distinct from every other value, NULL included.
collections_unique(s, kind, name) ==
  \/ kind = NullKind
  \/ \A c \in s.collections : ~(c.kind = kind /\ c.name = name)

\* notes_fts: one index entry of the external-content table.
FtsEntry(r) ==
  [rowid |-> r.id, path |-> r.path, title |-> r.title, body |-> r.body]

\* INSERT INTO notes_fts(rowid, path, title, body).
FtsInsert(fts, r) == fts (+) SetToBag({FtsEntry(r)})

\* INSERT INTO notes_fts(notes_fts, ...) VALUES('delete', ...): removes the
\* entry indexed with exactly these values.
FtsDelete(fts, r) ==
  IF BagIn(FtsEntry(r), fts) THEN fts (-) SetToBag({FtsEntry(r)}) ELSE fts

trigger_notes_ai(s, new) ==
  IF "trigger_notes_ai" \in s.schema THEN FtsInsert(s.fts, new) ELSE s.fts

trigger_notes_ad(s, old) ==
  IF "trigger_notes_ad" \in s.schema THEN FtsDelete(s.fts, old) ELSE s.fts

\* A trigger_notes_au that does not remove the old entry.
trigger_notes_au_InsertOnly(s, old, new) ==
  IF "trigger_notes_au" \in s.schema THEN FtsInsert(s.fts, new) ELSE s.fts

trigger_notes_au(s, old, new) ==
  IF "trigger_notes_au" \in s.schema
    THEN FtsInsert(FtsDelete(s.fts, old), new)
    ELSE s.fts

\* INSERT INTO notes (path, title, body).
SqlInsertNote(s, path, title, body) ==
  LET new == Note(s.seq.notes + 1, path, title, body) IN
  IF ~notes_unique_path(s, new.id, path)
    THEN Outcome(s, "constraint", 0, 0, 0)
    ELSE Outcome([s EXCEPT !.notes = @ \cup {new},
                           !.seq.notes = new.id,
                           !.fts = trigger_notes_ai(s, new)],
                 "ok", new.id, 0, 0)

\* UPDATE notes SET path, title, body WHERE id = old.id.
SqlUpdateNote(s, old, path, title, body) ==
  LET new == Note(old.id, path, title, body) IN
  IF ~notes_unique_path(s, old.id, path)
    THEN Outcome(s, "constraint", old.id, 0, 0)
    ELSE Outcome([s EXCEPT !.notes = (@ \ {old}) \cup {new},
                           !.fts = trigger_notes_au(s, old, new)],
                 "ok", old.id, 0, 0)

\* DELETE FROM notes WHERE id = old.id.
SqlDeleteNote(s, fk, old) ==
  Outcome([s EXCEPT !.notes = @ \ {old},
                    !.links = links_on_delete(@, fk, old.id),
                    !.notes_collections =
                        notes_collections_on_delete(@, fk, old.id),
                    !.fts = trigger_notes_ad(s, old)],
          "ok", old.id,
          IF fk THEN Cardinality({l \in s.links : l.source_id = old.id}) ELSE 0,
          IF fk THEN Cardinality({l \in s.links : l.source_id # old.id
                                                  /\ l.target_id = old.id})
                ELSE 0)

\* INSERT INTO links (source_id, target_id, title, href).
SqlInsertLink(s, fk, source, target, title, href) ==
  LET new == Link(s.seq.links + 1, source, target, title, href) IN
  IF ~links_references(s, fk, source, target)
    THEN Outcome(s, "constraint", 0, 0, 0)
    ELSE Outcome([s EXCEPT !.links = @ \cup {new}, !.seq.links = new.id],
                 "ok", new.id, 0, 0)

\* INSERT INTO collections (kind, name).
SqlInsertCollection(s, kind, name) ==
  LET new == Collection(s.seq.collections + 1, kind, name) IN
  IF ~collections_unique(s, kind, name)
    THEN Outcome(s, "constraint", 0, 0, 0)
    ELSE Outcome([s EXCEPT !.collections = @ \cup {new},
                           !.seq.collections = new.id],
                 "ok", new.id, 0, 0)

\* INSERT INTO notes_collections (note_id, collection_id).
SqlInsertAssociation(s, fk, note, collection) ==
  LET new == Association(s.seq.notes_collections + 1, note, collection) IN
  IF ~notes_collections_references(s, fk, note, collection)
    THEN Outcome(s, "constraint", 0, 0, 0)
    ELSE Outcome([s EXCEPT !.notes_collections = @ \cup {new},
                           !.seq.notes_collections = new.id],
                 "ok", new.id, 0, 0)

\* ------------------------------------------------------- Container.index
\* An index call that always forces.
IndexForce_Always(f, n) == TRUE

\* An index call that passes forceIndexing alone.
IndexForce_CallerOnly(f, n) == f

\* `forceIndexing || needsReindexing`, the force argument of c.index.
IndexForce(f, n) == f \/ n

\* An index that runs note.Index outside of a transaction.
index_NoTransaction ==
  /\ pc = "migrated"
  /\ err = ""
  /\ ~zkErr
  /\ force' = IndexForce(forceIndexing, needsReindexing)
  /\ indexed' = TRUE
  /\ tx' = store
  /\ txBase' = store
  /\ observed' = NoQuery
  /\ pc' = "index"
  /\ applied' = << >>
  /\ bar' = NewBar
  /\ UNCHANGED <<store, txOpen, foreign_keys, zkErr, forceIndexing,
                 version, needsReindexing, err, step, failed,
                 stmts, lastStmt, indexErr>>
  /\ UNCHANGED notDb

\* Container.Database calls c.index(db, forceIndexing || needsReindexing),
\* which runs note.Index inside db.WithTransaction.
index ==
  /\ pc = "migrated"
  /\ err = ""
  /\ ~zkErr
  /\ force' = IndexForce(forceIndexing, needsReindexing)
  /\ indexed' = TRUE
  /\ Begin
  /\ pc' = "index"
  /\ applied' = << >>
  /\ bar' = NewBar
  /\ UNCHANGED <<store, foreign_keys, zkErr, forceIndexing, version,
                 needsReindexing, err, step, failed,
                 stmts, lastStmt, indexErr>>
  /\ UNCHANGED notDb

\* A row statement of the index run, with outcome o.  It changes the open
\* transaction, or the database itself when the connection has no open
\* transaction (autocommit).  A rejected statement is a store-level error:
\* note.Index returns it.
Statement(op, o) ==
  /\ pc = "index"
  /\ stmts < MaxStmts
  /\ stmts' = stmts + 1
  /\ lastStmt' = [op |-> op, result |-> o.result, id |-> o.id,
                  cascaded |-> o.cascaded, nulled |-> o.nulled]
  /\ tx' = o.db
  /\ store' = IF txOpen THEN store ELSE o.db
  /\ pc' = IF o.result = "ok" THEN "index" ELSE "index_return"
  /\ UNCHANGED <<err, indexErr, txOpen, foreign_keys, zkErr, forceIndexing,
                 version,
                 needsReindexing, force, indexed, step, failed, txBase,
                 applied, observed, bar>>
  /\ UNCHANGED notDb

InsertNote ==
  /\ "notes" \in tx.schema
  /\ tx.seq.notes < MaxNoteId
  /\ \E path \in Paths, title \in Titles, body \in Bodies :
       Statement("InsertNote", SqlInsertNote(tx, path, title, body))

UpdateNote ==
  /\ "notes" \in tx.schema
  /\ \E old \in tx.notes, path \in Paths, title \in Titles, body \in Bodies :
       Statement("UpdateNote", SqlUpdateNote(tx, old, path, title, body))

DeleteNote ==
  /\ "notes" \in tx.schema
  /\ \E old \in tx.notes :
       Statement("DeleteNote", SqlDeleteNote(tx, foreign_keys, old))

InsertLink ==
  /\ "links" \in tx.schema
  /\ tx.seq.links < MaxLinkId
  /\ \E source \in 1..MaxNoteId, target \in {NULL} \cup 1..MaxNoteId,
        title \in LinkTitles, href \in Hrefs :
       Statement("InsertLink",
                 SqlInsertLink(tx, foreign_keys, source, target, title, href))

InsertCollection ==
  /\ "collections" \in tx.schema
  /\ tx.seq.collections < MaxCollectionId
  /\ \E kind \in Kinds, name \in Names :
       Statement("InsertCollection", SqlInsertCollection(tx, kind, name))

InsertAssociation ==
  /\ "notes_collections" \in tx.schema
  /\ tx.seq.notes_collections < MaxAssociationId
  /\ \E note \in 1..MaxNoteId, collection \in 1..MaxCollectionId :
       Statement("InsertAssociation",
                 SqlInsertAssociation(tx, foreign_keys, note, collection))

\* bar.Clear().
Clear(b) == [b EXCEPT !.cleared = @ + 1]

\* A closure that returns nil whatever note.Index returned.
IndexClosureResult_Nil(e) == ""

\* `return err` of the closure index passes to WithTransaction.
IndexClosureResult(e) == e

\* note.Index returns: nil, the error of a rejected statement, or another
\* store-level error (I/O failure on the file).  The closure returns it,
\* WithTransaction commits or rolls back, index clears the bar and Database
\* returns.
IndexReturn ==
  /\ pc \in {"index", "index_return"}
  /\ \E e \in {"", "store error", "constraint failed"} :
       /\ pc = "index" => e # "constraint failed"
       /\ pc = "index_return" => e = "constraint failed"
       /\ indexErr' = e
       /\ LET r == IndexClosureResult(e) IN
          /\ IF txOpen THEN End(r)
                       ELSE UNCHANGED <<store, tx, txOpen, observed>>
          /\ err' = r
  /\ bar' = Clear(bar)
  /\ pc' = "returned"
  /\ UNCHANGED <<foreign_keys, zkErr, forceIndexing, version,
                 needsReindexing, force, indexed, step, failed, txBase,
                 applied, stmts, lastStmt>>
  /\ UNCHANGED notDb

\* A query of another connection reads the database file.  `observed` keeps
\* the result of the last query since the last transaction boundary.
Query ==
  /\ observed' = [taken |-> TRUE, db |-> store]
  /\ observed' # observed
  /\ UNCHANGED <<store, tx, txOpen, foreign_keys, pc, zkErr,
                 forceIndexing, version, needsReindexing, err, force, indexed,
                 step, failed, txBase, applied, stmts, lastStmt,
                 indexErr, bar>>
  /\ UNCHANGED notDb

Next ==
  \/ Database
  \/ MigrateBegin
  \/ MigrateStep
  \/ MigrateReturn
  \/ DatabaseMigrateFailed
  \/ index
  \/ InsertNote
  \/ UpdateNote
  \/ DeleteNote
  \/ InsertLink
  \/ InsertCollection
  \/ InsertAssociation
  \/ IndexReturn
  \/ Query

Spec == Init /\ [][Next]_vars

\* ------------------------------------------------------------- note.Index
MaxChanges == 4       \* changes applied to the store over all index runs

\* The note files of a notebook, in the order a listing walks them.
PathOrder == <<"a.md", "b.md">>

\* The tags written in a note content, per syntax and in order of occurrence:
\* the content "y" holds `#n` and `:n:`, the content "x" holds no tag.
Hashtags(content) == IF content = "y" THEN <<"n">> ELSE << >>

Colontags(content) == IF content = "y" THEN <<"n">> ELSE << >>

\* Container.Parser: the tag syntaxes of c.Config.Format.Markdown, here a
\* configuration that enables hashtags and colon tags.
Parser == [HashtagEnabled |-> TRUE, ColontagEnabled |-> TRUE]

\* A parser that returns every occurrence of a tag.
KeepDuplicates(tags) == tags

\* Duplicate tags on one note collapse: the first occurrence of each is kept.
RECURSIVE RemoveDuplicates(_)
RemoveDuplicates(tags) ==
  IF tags = << >> THEN << >>
  ELSE LET front == RemoveDuplicates(SubSeq(tags, 1, Len(tags) - 1))
           last == tags[Len(tags)]
       IN IF \E i \in 1..Len(front) : front[i] = last
            THEN front
            ELSE Append(front, last)

\* Parse, tags only: scanned per the enabled syntaxes.
ParseTags(content, opts) ==
  RemoveDuplicates(
    (IF opts.HashtagEnabled THEN Hashtags(content) ELSE << >>) \o
    (IF opts.ColontagEnabled THEN Colontags(content) ELSE << >>))

\* The checksum of a note: a deterministic hash of its raw content.
Checksum(content) == <<"checksum", content>>

Indexed(s, path) == \E r \in s.notes : r.path = path

NoteAt(s, path) == CHOOSE r \in s.notes : r.path = path

\* Diff, one path: a file absent from the index is Added; an indexed file is
\* Modified when its checksum differs or the run is forced; an indexed path
\* without file is Removed.
ChangeKind(fs, s, f, path) ==
  CASE fs[path] # Absent /\ ~Indexed(s, path) -> "Added"
    [] fs[path] # Absent /\ Indexed(s, path) ->
         IF f \/ Checksum(fs[path]) # Checksum(NoteAt(s, path).body)
           THEN "Modified" ELSE "Unchanged"
    [] fs[path] = Absent /\ Indexed(s, path) -> "Removed"
    [] OTHER -> "Unchanged"

Change(path, kind) == [path |-> path, kind |-> kind]

\* Diff: the non-Unchanged changes, in the order of the listing.
Diff(fs, s, f) ==
  SelectSeq([i \in 1..Len(PathOrder) |->
               Change(PathOrder[i], ChangeKind(fs, s, f, PathOrder[i]))],
            LAMBDA c : c.kind # "Unchanged")

HasCollection(s, name) ==
  \E c \in s.collections : c.kind = CollectionKindTag /\ c.name = name

CollectionId(s, name) ==
  (CHOOSE c \in s.collections : c.kind = CollectionKindTag /\ c.name = name).id

\* The tag collection `name` is found, or created.
FindOrCreateCollection(s, name) ==
  IF HasCollection(s, name)
    THEN s
    ELSE SqlInsertCollection(s, CollectionKindTag, name).db

\* One association of the note per tag of the parsed note.
RECURSIVE AssociateTags(_, _, _, _)
AssociateTags(s, fk, note, tags) ==
  IF tags = << >> THEN s
  ELSE LET s1 == AssociateTags(s, fk, note, SubSeq(tags, 1, Len(tags) - 1))
           s2 == FindOrCreateCollection(s1, tags[Len(tags)])
       IN SqlInsertAssociation(s2, fk, note,
                               CollectionId(s2, tags[Len(tags)])).db

\* The tags of a note are replaced wholesale by an update.
RemoveAssociations(s, note) ==
  [s EXCEPT !.notes_collections = {a \in @ : a.note_id # note}]

\* The store after the change is applied: Added -> insert, Modified ->
\* update, Removed -> delete, each with the tags of the note.
ApplyChange(s, fk, fs, c) ==
  LET tags == ParseTags(fs[c.path], Parser) IN
  CASE c.kind = "Added" ->
         LET o == SqlInsertNote(s, c.path, "T", fs[c.path]) IN
         AssociateTags(o.db, fk, o.id, tags)
    [] c.kind = "Modified" ->
         LET o == SqlUpdateNote(s, NoteAt(s, c.path), c.path, "T", fs[c.path])
         IN AssociateTags(RemoveAssociations(o.db, o.id), fk, o.id, tags)
    [] OTHER -> SqlDeleteNote(s, fk, NoteAt(s, c.path)).db

\* IndexingStats, counting the change.
Count(st, c) == [st EXCEPT ![c.kind] = @ + 1]

\* A callback that adds two to the bar.
onChange_AddTwo(b, c) == [b EXCEPT !.n = @ + 2, !.description = c]

\* The callback index passes to note.Index: bar.Add(1), then bar.Describe
\* with the change.
onChange(b, c) == [b EXCEPT !.n = @ + 1, !.description = c]

\* note.Index begins inside the transaction of index: the listing of the
\* note files is diffed against the notes of the store.
IndexStart ==
  /\ pc = "index"
  /\ pc' = "indexing"
  /\ changes' = Diff(files, tx, force)
  /\ parsed' = << >>
  /\ done' = 0
  /\ stats' = NoStats
  /\ progress' = << >>
  /\ UNCHANGED <<store, tx, txOpen, foreign_keys, zkErr, forceIndexing,
                 version, needsReindexing, err, force, indexed, step, failed,
                 txBase, applied, stmts, lastStmt, observed, indexErr, bar>>
  /\ UNCHANGED <<files, prev>>
  /\ UNCHANGED otherVars

IsParsed(ps, i) == \E k \in 1..Len(ps) : ps[k] = i

\* A parsing worker finishes the file of a change, in any order.
Parse ==
  /\ pc = "indexing"
  /\ \E i \in 1..Len(changes) :
       /\ ~IsParsed(parsed, i)
       /\ changes[i].kind # "Removed"
       /\ parsed' = Append(parsed, i)
  /\ UNCHANGED dbVars
  /\ UNCHANGED <<files, changes, done, stats, progress, prev>>
  /\ UNCHANGED otherVars

\* The thread driving the transaction applies the next change of the diff,
\* once its file is parsed, counts it and calls onChange.
Apply ==
  /\ pc = "indexing"
  /\ done < Len(changes)
  /\ stmts < MaxChanges
  /\ LET c == changes[done + 1] IN
     /\ c.kind = "Removed" \/ IsParsed(parsed, done + 1)
     /\ tx' = ApplyChange(tx, foreign_keys, files, c)
     /\ stats' = Count(stats, c)
     /\ bar' = onChange(bar, c)
     /\ progress' = Append(progress, c)
  /\ done' = done + 1
  /\ stmts' = stmts + 1
  /\ UNCHANGED <<store, txOpen, foreign_keys, pc, zkErr, forceIndexing,
                 version, needsReindexing, err, force, indexed, step, failed,
                 txBase, applied, lastStmt, observed, indexErr>>
  /\ UNCHANGED <<files, changes, parsed, prev>>
  /\ UNCHANGED otherVars

\* note.Index returns the stats and nil once every change is applied, or a
\* store-level error at any point.  The closure of index returns the error,
\* WithTransaction commits or rolls back, index clears the bar and Database
\* returns.
IndexFinish ==
  /\ pc = "indexing"
  /\ \E e \in {"", "store error"} :
       /\ e = "" => done = Len(changes)
       /\ indexErr' = e
       /\ LET r == IndexClosureResult(e) IN
          /\ End(r)
          /\ err' = r
          /\ prev' = IF r # "" THEN "none"
                     ELSE IF needsReindexing THEN "reindexed" ELSE "indexed"
  /\ bar' = Clear(bar)
  /\ pc' = "returned"
  /\ changes' = << >>
  /\ parsed' = << >>
  /\ done' = 0
  /\ UNCHANGED <<foreign_keys, zkErr, forceIndexing, version,
                 needsReindexing, force, indexed, step, failed, txBase,
                 applied, stmts, lastStmt>>
  /\ UNCHANGED <<files, stats, progress>>
  /\ UNCHANGED otherVars

\* Between two Database calls a note file is written, edited or deleted.
EditFile ==
  /\ pc \in {"idle", "returned"}
  /\ \E path \in Paths, content \in Bodies \cup {Absent} :
       /\ content # files[path]
       /\ files' = [files EXCEPT ![path] = content]
  /\ prev' = "none"
  /\ UNCHANGED dbVars
  /\ UNCHANGED <<changes, parsed, done, stats, progress>>
  /\ UNCHANGED otherVars

\* A notebook with any note files and its database.
IndexInit ==
  /\ InitDb
  /\ files \in [Paths -> Bodies \cup {Absent}]
  /\ NoRun
  /\ NoCall
  /\ NoConfig
  /\ NoOpen

IndexNext ==
  \/ Database
  \/ MigrateBegin
  \/ MigrateStep
  \/ MigrateReturn
  \/ DatabaseMigrateFailed
  \/ index
  \/ IndexStart
  \/ Parse
  \/ Apply
  \/ IndexFinish
  \/ EditFile

\* Container.Database with note.Index run over the files of the notebook.
IndexSpec == IndexInit /\ [][IndexNext]_vars

\* ------------------------------------------------- zk.Open and zk.Create
\* The working directory of the process.
Cwd == <<"a">>

\* filepath.Abs: a relative path is joined to the working directory.
Abs(p) == IF p.abs THEN p.names ELSE Cwd \o p.names

\* The paths a call is given: every directory of the tree by its absolute
\* path, and "." and "a".
InputPaths ==
  {Path(TRUE, d) : d \in Dirs} \cup
  {Path(FALSE, n) : n \in {d \in {<< >>, <<"a">>} : Cwd \o d \in Dirs}}

\* filepath.Dir of a clean absolute path: the last element is dropped, and
\* "/" is its own parent.
Dir(p) == IF p = Root THEN Root ELSE SubSeq(p, 1, Len(p) - 1)

Err(kind, path) == [kind |-> kind, path |-> path, msg |-> ""]

ErrNotebookNotFound(path) == Err("ErrNotebookNotFound", path)

\* errors.Wrapper(msg): the error keeps its identity under the message.
Wrap(msg, e) == [e EXCEPT !.msg = msg]

\* paths.DirExists(filepath.Join(d, ".zk")); the test of the directory `bad`
\* ends in an I/O error.
DirExists(f, bad, d) ==
  IF d = bad THEN [exists |-> FALSE, err |-> Err("stat failed", d)]
             ELSE [exists |-> f[d].zk, err |-> NoErr]

\* The closure `locate` of locateRoot.  An absolute path never becomes ".",
\* so `currentPath == "/" || currentPath == "."` is the test of "/".
RECURSIVE locate(_, _, _, _)
locate(f, bad, path, currentPath) ==
  IF currentPath = Root
    THEN [root |-> NoPath, err |-> ErrNotebookNotFound(path)]
    ELSE LET r == DirExists(f, bad, currentPath) IN
         CASE r.err # NoErr -> [root |-> NoPath, err |-> r.err]
           [] r.exists -> [root |-> currentPath, err |-> NoErr]
           [] OTHER -> locate(f, bad, path, Dir(currentPath))

\* locateRoot, for the absolute path it is given by Open and Create.
locateRoot(f, bad, path) == locate(f, bad, path, path)

\* OpenConfig(<root>/.zk/config.toml, parentConfig): the file is read and
\* parsed over the parent configuration.
OpenConfig(f, root, parentConfig) ==
  IF f[root].config = "none"
    THEN [config |-> parentConfig, err |-> Err("config not found", root)]
    ELSE [config |-> [parent |-> parentConfig.file, file |-> f[root].config,
                      of |-> root],
          err |-> NoErr]

\* zk.Open: (*Zk, error).
Open(f, bad, originalPath, parentConfig) ==
  LET path == Abs(originalPath)
      l == locateRoot(f, bad, path)
  IN IF l.err # NoErr
       THEN [zk |-> NoZk, err |-> Wrap("open failed", l.err)]
       ELSE LET c == OpenConfig(f, l.root, parentConfig) IN
            IF c.err # NoErr
              THEN [zk |-> NoZk, err |-> Wrap("open failed", c.err)]
              ELSE [zk |-> [Path |-> l.root, Config |-> c.config,
                            workingDir |-> Abs(originalPath)],
                    err |-> NoErr]

\* paths.WriteString of <d>/.zk/config.toml with defaultConfig.
WriteConfig(f, d) == [f EXCEPT ![d].zk = TRUE, ![d].config = "default"]

\* paths.WriteString of <d>/.zk/templates/default.md with defaultTemplate.
WriteTemplate(f, d) == [f EXCEPT ![d].zk = TRUE, ![d].template = TRUE]

\* zk.Create: the file tree it leaves and its error.  The first `writes`
\* calls of paths.WriteString succeed.
Create(f, bad, writes, originalPath) ==
  LET path == Abs(originalPath)
      l == locateRoot(f, bad, path)
  IN IF l.err = NoErr
       THEN [disk |-> f,
             err |-> Wrap("init failed",
                          Err("a notebook already exists", l.root))]
     ELSE IF writes = 0
       THEN [disk |-> f, err |-> Wrap("init failed", Err("write failed", path))]
     ELSE IF writes = 1
       THEN [disk |-> WriteConfig(f, path),
             err |-> Wrap("init failed", Err("write failed", path))]
     ELSE [disk |-> WriteTemplate(WriteConfig(f, path), path), err |-> NoErr]

\* A call of zk.Open.
OpenCall ==
  /\ \E p \in InputPaths, bad \in Dirs \cup {NoPath} :
       LET o == Open(disk, bad, p, GlobalConfig) IN
       res' = [op |-> "Open", path |-> p, io |-> (bad # NoPath),
               wrote |-> FALSE, root |-> o.zk.Path, err |-> o.err]
  /\ UNCHANGED <<disk, created>>
  /\ UNCHANGED notZk

\* A call of zk.Create.
CreateCall ==
  /\ \E p \in InputPaths, bad \in Dirs \cup {NoPath}, writes \in 0..2 :
       LET o == Create(disk, bad, writes, p) IN
       /\ disk' = o.disk
       /\ res' = [op |-> "Create", path |-> p,
                  io |-> (bad # NoPath \/ writes < 2),
                  wrote |-> (o.disk # disk), root |-> NoPath, err |-> o.err]
       /\ created' = IF o.err = NoErr THEN created \cup {Abs(p)} ELSE created
  /\ UNCHANGED notZk

\* A file tree where any directory holds a `.zk` directory, empty or with the
\* config.toml of a user.
ZkInit ==
  /\ InitDb
  /\ store = EmptyDB(0)
  /\ zkErr = FALSE
  /\ files = [p \in Paths |-> Absent]
  /\ NoRun
  /\ disk \in [Dirs -> {NoDotZk, DotZk(TRUE, "none", FALSE),
                        DotZk(TRUE, "user", FALSE)}]
  /\ res = NoRes
  /\ created = {}
  /\ NoConfig
  /\ NoOpen

ZkNext ==
  \/ OpenCall
  \/ CreateCall

\* zk.Open and zk.Create called in any order on a file tree.
ZkSpec == ZkInit /\ [][ZkNext]_vars

\* ------------------------------------------------------------ opt.String
NullString == [null |-> TRUE, value |-> ""]

NewString(value) == [null |-> FALSE, value |-> value]

IsNull(s) == s.null

\* An IsEmpty that takes a null String for an empty one.
IsEmpty_OrNull(s) == IsNull(s) \/ s.value = ""

IsEmpty(s) == ~IsNull(s) /\ s.value = ""

\* ------------------------------------------------------------ ParseConfig
\* A property a table of the document does not set.
Unset == "<unset>"

NoteKeys == {"filename", "extension", "template", "language",
             "default-title", "id-charset", "id-length", "id-case"}

ExtraKeys == {"hello", "salut", "log-ext"}

\* The names of groups and directories are sequences of characters.
log == <<"l", "o", "g">>

lab == <<"l", "a", "b">>

ref == <<"r", "e", "f">>

lStar == <<"l", "*">>

GroupNames == {log, lStar}

\* A table of [note] or [extra] properties setting nothing.
NoTable(keys) == [k \in keys |-> Unset]

\* [note] of TestParseMergesGroupConfig.
RootNote ==
  [k \in NoteKeys |->
     CASE k = "filename" -> "root-filename"
       [] k = "extension" -> "txt"
       [] k = "template" -> "root-template"
       [] k = "language" -> "fr"
       [] k = "default-title" -> "Sans titre"
       [] k = "id-charset" -> "letters"
       [] k = "id-length" -> "42"
       [] k = "id-case" -> "upper"]

\* [group.log.note] of TestParseMergesGroupConfig, but for an id-case no
\* Case is named by.
LogNote ==
  [k \in NoteKeys |->
     CASE k = "filename" -> "log-filename"
       [] k = "template" -> "log-template"
       [] k = "id-charset" -> "numbers"
       [] k = "id-length" -> "8"
       [] k = "id-case" -> "unknown"
       [] OTHER -> Unset]

\* [extra] of TestParseMergesGroupConfig.
RootExtra ==
  [k \in ExtraKeys |->
     CASE k = "hello" -> "world"
       [] k = "salut" -> "le monde"
       [] OTHER -> Unset]

\* [group.log.extra] of TestParseMergesGroupConfig.
LogExtra ==
  [k \in ExtraKeys |->
     CASE k = "hello" -> "override"
       [] k = "log-ext" -> "value"
       [] OTHER -> Unset]

\* The `paths` property of a group: not set, or a list of patterns.
NoPaths == [set |-> FALSE, list |-> << >>]

PathList(list) == [set |-> TRUE, list |-> list]

\* A [group."<name>"] section, or none of that name.
NoGroup == [declared |-> FALSE, paths |-> NoPaths,
            note |-> NoTable(NoteKeys), extra |-> NoTable(ExtraKeys)]

Group(paths, note, extra) ==
  [declared |-> TRUE, paths |-> paths, note |-> note, extra |-> extra]

GroupTables ==
  {NoGroup} \cup
  {Group(paths, note, extra) :
     paths \in {NoPaths, PathList(<< >>), PathList(<<ref>>),
                PathList(<<ref, lStar>>), PathList(<<<<"[">>>>)},
     note \in {NoTable(NoteKeys), LogNote},
     extra \in {NoTable(ExtraKeys), LogExtra}}

\* The documents: [note], [extra], the [group] sections and `pager` of
\* [tool], each set or not.
Docs ==
  [read : {TRUE},
   note : {NoTable(NoteKeys), RootNote},
   extra : {NoTable(ExtraKeys), RootExtra},
   group : [GroupNames -> GroupTables],
   pager : {Unset, "", "less"}]

\* NewDefaultConfig, as TestParseDefaultConfig shows it.
NewDefaultConfig ==
  [parsed |-> TRUE,
   Note |-> [k \in NoteKeys |->
               CASE k = "filename" -> "{{id}}"
                 [] k = "extension" -> "md"
                 [] k = "template" -> Unset
                 [] k = "language" -> "en"
                 [] k = "default-title" -> "Untitled"
                 [] k = "id-charset" -> "alphanum"
                 [] k = "id-length" -> "4"
                 [] k = "id-case" -> "lower"],
   Extra |-> NoTable(ExtraKeys),
   Groups |-> << >>,
   Tool |-> [Pager |-> NullString]]

\* The value a property is parsed to: an id-case other than lower, upper
\* and mixed is CaseLower.
Parsed(k, v) ==
  IF k = "id-case" /\ v \notin {"lower", "upper", "mixed"} THEN "lower" ELSE v

\* A merge where the base wins on a property both set.
Merge_BaseWins(base, table) ==
  [k \in DOMAIN base |->
     IF base[k] # Unset THEN base[k] ELSE Parsed(k, table[k])]

\* The properties a table sets replace those of the base.
Merge(base, table) ==
  [k \in DOMAIN base |->
     IF table[k] # Unset THEN Parsed(k, table[k]) ELSE base[k]]

\* ParseConfig(content, path, parentConfig).
ParseConfig(d, parentConfig) ==
  LET note == Merge(parentConfig.Note, d.note)
      extra == Merge(parentConfig.Extra, d.extra)
  IN [parsed |-> TRUE,
      Note |-> note,
      Extra |-> extra,
      Groups |-> [g \in {n \in GroupNames : d.group[n].declared} |->
                    [Paths |-> IF d.group[g].paths.set
                                 THEN d.group[g].paths.list
                                 ELSE <<g>>,
                     Note |-> Merge(note, d.group[g].note),
                     Extra |-> Merge(extra, d.group[g].extra)]],
      Tool |-> [Pager |-> IF d.pager = Unset THEN parentConfig.Tool.Pager
                                             ELSE NewString(d.pager)]]

\* Config.RootGroupConfig.
RootGroupConfig(c) == [Paths |-> << >>, Note |-> c.Note, Extra |-> c.Extra]

\* ------------------------------------------------------------ Zk.DirAt
\* The notebook DirAt is asked about, and the directory the program works in.
nb == <<"n", "b">>

NotebookPath == <<nb>>

\* filepath.Join of the elements of a relative path.
RECURSIVE Join(_)
Join(names) ==
  IF names = << >> THEN << >>
  ELSE IF Len(names) = 1 THEN names[1]
  ELSE names[1] \o <<"/">> \o Join(Tail(names))

IsPrefix(p, q) == Len(p) <= Len(q) /\ SubSeq(q, 1, Len(p)) = p

\* Zk.absPath: a relative path is joined to the working directory of zk.
absPath(workingDir, p) == IF p.abs THEN p.names ELSE workingDir \o p.names

\* Zk.RelPath of an absolute path: the name relative to the notebook root,
\* "" for the root itself; a path outside of the notebook is an error.
RelPath(root, path) ==
  IF IsPrefix(root, path)
    THEN [name |-> Join(SubSeq(path, Len(root) + 1, Len(path))), err |-> NoErr]
    ELSE [name |-> << >>, err |-> Err("path is outside the notebook", NoPath)]

\* filepath.Match of a well-formed pattern: `*` matches any run of
\* characters other than the separator.
RECURSIVE Matches(_, _)
Matches(pattern, name) ==
  IF pattern = << >> THEN name = << >>
  ELSE IF Head(pattern) = "*"
    THEN \E k \in 0..Len(name) :
           /\ \A i \in 1..k : name[i] # "/"
           /\ Matches(Tail(pattern), SubSeq(name, k + 1, Len(name)))
  ELSE /\ name # << >>
       /\ Head(name) = Head(pattern)
       /\ Matches(Tail(pattern), Tail(name))

\* filepath.Match: ErrBadPattern for a pattern with an open character class.
Match(pattern, name) ==
  IF \E i \in DOMAIN pattern : pattern[i] = "["
    THEN [matches |-> FALSE, err |-> Err("ErrBadPattern", NoPath)]
    ELSE [matches |-> Matches(pattern, name), err |-> NoErr]

\* GroupConfig{}.
NoGroupConfig ==
  [Paths |-> << >>, Note |-> NoTable(NoteKeys), Extra |-> NoTable(ExtraKeys)]

\* The orders `range` may visit the keys of a map in.
Orders(keys) ==
  {o \in [1..Cardinality(keys) -> keys] :
     \A i, j \in DOMAIN o : i # j => o[i] # o[j]}

\* `for _, path := range group.Paths`: the first path that matches or is
\* malformed decides.
RECURSIVE MatchPaths(_, _)
MatchPaths(paths, name) ==
  IF paths = << >> THEN [matches |-> FALSE, err |-> NoErr]
  ELSE LET m == Match(Head(paths), name) IN
       IF m.err # NoErr \/ m.matches THEN m
       ELSE MatchPaths(Tail(paths), name)

\* `for groupName, group := range zk.Config.Groups`, the groups visited in
\* `order`.
RECURSIVE MatchGroups(_, _, _)
MatchGroups(c, order, name) ==
  IF order = << >> THEN [config |-> RootGroupConfig(c), err |-> NoErr]
  ELSE LET group == c.Groups[Head(order)]
           m == MatchPaths(group.Paths, name)
       IN IF m.err # NoErr
            THEN [config |-> NoGroupConfig,
                  err |-> Wrap("failed to match group", m.err)]
          ELSE IF m.matches THEN [config |-> group, err |-> NoErr]
          ELSE MatchGroups(c, Tail(order), name)

\* A ConfigOverrides naming a group, or none.
NoGroupOverride == [Group |-> [null |-> TRUE, value |-> << >>]]

GroupOverride(name) == [Group |-> [null |-> FALSE, value |-> name]]

\* The loop over the overrides of findConfigForDirNamed: the first override
\* naming a group of the configuration, else the last group named.
RECURSIVE OverriddenGroup(_, _, _)
OverriddenGroup(c, overrides, overriddenGroup) ==
  IF overrides = << >> THEN [found |-> FALSE, name |-> overriddenGroup]
  ELSE LET o == Head(overrides) IN
       IF IsNull(o.Group)
         THEN OverriddenGroup(c, Tail(overrides), overriddenGroup)
       ELSE IF o.Group.value \in DOMAIN c.Groups
         THEN [found |-> TRUE, name |-> o.Group.value]
       ELSE OverriddenGroup(c, Tail(overrides), o.Group.value)

\* Zk.findConfigForDirNamed, the map of groups visited in `order`.
findConfigForDirNamed(c, name, overrides, order) ==
  LET o == OverriddenGroup(c, overrides, << >>) IN
  IF o.found THEN [config |-> c.Groups[o.name], err |-> NoErr]
  ELSE IF o.name # << >>
    THEN [config |-> NoGroupConfig,
          err |-> Err("group not find in the config file", NoPath)]
  ELSE MatchGroups(c, order, name)

\* Zk.DirAt, for overrides that name at most a group.
DirAt(c, workingDir, p, overrides, order) ==
  LET path == absPath(workingDir, p)
      r == RelPath(NotebookPath, path)
  IN IF r.err # NoErr
       THEN [name |-> << >>, config |-> NoGroupConfig, err |-> r.err]
       ELSE LET f == findConfigForDirNamed(c, r.name, overrides, order) IN
            [name |-> r.name, config |-> f.config, err |-> f.err]

\* ------------------------------------------------------ Container.Paginate
PassthroughPager == [kind |-> "PassthroughPager", command |-> NullString]

NilPager == [kind |-> "nil", command |-> NullString]

\* pager.New: the pager of the user, or an error when it cannot be started.
pagerNew(command, fails) ==
  IF fails THEN [pager |-> NilPager, err |-> Err("pager failed", NoPath)]
           ELSE [pager |-> [kind |-> "Pager", command |-> command],
                 err |-> NoErr]

\* Container.pager.
pager(c, noPager, interactive, fails) ==
  IF noPager \/ ~interactive
    THEN [pager |-> PassthroughPager, err |-> NoErr]
    ELSE pagerNew(c.Tool.Pager, fails)

\* Container.Paginate: the pager `run` wrote to, the calls made in their
\* order, and the error returned.
Paginate(c, noPager, interactive, fails, runErr) ==
  LET p == pager(c, noPager \/ IsEmpty(c.Tool.Pager), interactive, fails) IN
  IF p.err # NoErr
    THEN [pager |-> p.pager, calls |-> << >>, err |-> p.err]
    ELSE [pager |-> p.pager, calls |-> <<"run", "Close">>, err |-> runErr]

\* ------------------------------------------------------------ ConfigSpec
DirPaths ==
  {Path(TRUE, <<nb>>), Path(TRUE, <<nb, log>>), Path(TRUE, <<nb, lab>>),
   Path(TRUE, <<nb, ref>>), Path(TRUE, <<nb, log, ref>>),
   Path(TRUE, <<log>>), Path(FALSE, <<lab>>), Path(FALSE, << >>)}

Overrides ==
  {<< >>, <<NoGroupOverride>>, <<GroupOverride(log)>>,
   <<GroupOverride(ref), NoGroupOverride>>}

\* A run of the program reads its configuration, then runs one command.
CommandPending == conf.parsed /\ out.op = "ParseConfig"

ParseConfigCall ==
  /\ ~conf.parsed
  /\ conf' = ParseConfig(doc, NewDefaultConfig)
  /\ out' = [op |-> "ParseConfig"]
  /\ UNCHANGED doc
  /\ UNCHANGED notConfig

DirAtCall ==
  /\ CommandPending
  /\ \E p \in DirPaths, overrides \in Overrides,
        workingDir \in {NotebookPath, <<nb, log>>},
        order \in Orders(DOMAIN conf.Groups) :
       out' = [op |-> "DirAt", path |-> p, overrides |-> overrides,
               dir |-> DirAt(conf, workingDir, p, overrides, order)]
  /\ UNCHANGED <<doc, conf>>
  /\ UNCHANGED notConfig

PaginateCall ==
  /\ CommandPending
  /\ \E noPager, interactive, fails \in BOOLEAN,
        runErr \in {NoErr, Err("run failed", NoPath)} :
       out' = [op |-> "Paginate", noPager |-> noPager,
               interactive |-> interactive, fails |-> fails,
               runErr |-> runErr,
               result |-> Paginate(conf, noPager, interactive, fails, runErr)]
  /\ UNCHANGED <<doc, conf>>
  /\ UNCHANGED notConfig

ConfigInit ==
  /\ InitDb
  /\ store = EmptyDB(0)
  /\ zkErr = FALSE
  /\ files = [p \in Paths |-> Absent]
  /\ NoRun
  /\ NoCall
  /\ doc \in Docs
  /\ conf = [parsed |-> FALSE]
  /\ out = [op |-> ""]
  /\ NoOpen

ConfigNext ==
  \/ ParseConfigCall
  \/ DirAtCall
  \/ PaginateCall

ConfigSpec == ConfigInit /\ [][ConfigNext]_vars

\* -------------------------------------------------- Container.OpenNotebook
\* The longest list of search paths a call is given.
MaxSearchPaths == 2

\* The lists of search paths of at least one path.
SearchPaths ==
  UNION {[1..n -> InputPaths] : n \in 1..MaxSearchPaths}

\* NotebookStore.OpenNotebook: a notebook on the path, or an error.
NotebookStoreOpenNotebook(path, fails) ==
  IF fails
    THEN [notebook |-> NoNotebook, err |-> Err("notebook not opened", NoPath)]
    ELSE [notebook |-> [opened |-> TRUE, path |-> path], err |-> NoErr]

\* Both opens of a path succeeded: the path becomes the working directory
\* and the configuration of its notebook the one of the container.
UseNotebook(c, path) == [c EXCEPT !.WorkingDir = path, !.Config = c.zk.Config]

\* A loop that takes every path it opens for its working directory.
UseNotebook_Always(s, c, path) ==
  [s EXCEPT !.container = UseNotebook(c, path),
            !.environ = c.zk.Path,
            !.tried = Append(@, path)]

\* One turn of the loop on a path that did not open: the results of the opens
\* stay in the container.
KeepErrors(s, c, path) ==
  [s EXCEPT !.container = c, !.tried = Append(@, path)]

\* The loop of OpenNotebook over the paths left: the container, the
\* environment and the paths tried when it ends.  fails[i] tells whether
\* NotebookStore.OpenNotebook fails on the i-th path left.
RECURSIVE OpenNotebookLoop(_, _, _, _, _)
OpenNotebookLoop(s, f, bad, fails, searchPaths) ==
  IF searchPaths = << >> THEN s
  ELSE LET path == Head(searchPaths)
           n == NotebookStoreOpenNotebook(path, Head(fails))
           z == Open(f, bad, path, s.container.Config)
           c == [s.container EXCEPT !.notebook = n.notebook,
                                    !.notebookErr = n.err,
                                    !.zk = z.zk,
                                    !.zkErr = z.err]
       IN IF c.notebookErr = NoErr /\ c.zkErr = NoErr
            THEN [s EXCEPT !.container = UseNotebook(c, path),
                           !.environ = c.zk.Path,
                           !.tried = Append(@, path)]
            ELSE OpenNotebookLoop(KeepErrors(s, c, path), f, bad,
                                  Tail(fails), Tail(searchPaths))

\* Container.Notebook.
Notebook(c) == [notebook |-> c.notebook, err |-> c.notebookErr]

\* Container.Zk.
Zk(c) == [zk |-> c.zk, err |-> c.zkErr]

\* Container.OpenNotebook: a panic on an empty list, else the loop.
OpenNotebook ==
  /\ opened.op = ""
  /\ \E searchPaths \in SearchPaths \cup {<< >>}, bad \in {Cwd, NoPath} :
       \E fails \in [DOMAIN searchPaths -> BOOLEAN] :
         IF Len(searchPaths) = 0
           THEN /\ opened' = [op |-> "panic", searchPaths |-> searchPaths,
                              tried |-> << >>, fails |-> fails, bad |-> bad]
                /\ UNCHANGED <<container, environ, zkErr>>
           ELSE LET s == OpenNotebookLoop([container |-> container,
                                           environ |-> environ,
                                           tried |-> << >>],
                                          disk, bad, fails, searchPaths)
                IN /\ container' = s.container
                   /\ environ' = s.environ
                   /\ zkErr' = (s.container.zkErr # NoErr)
                   /\ opened' = [op |-> "OpenNotebook",
                                 searchPaths |-> searchPaths,
                                 tried |-> s.tried, fails |-> fails,
                                 bad |-> bad]
  /\ UNCHANGED notContainer

\* The Container of NewContainer over any file tree.
ContainerInit ==
  /\ InitDb
  /\ store = EmptyDB(0)
  /\ zkErr = FALSE
  /\ files = [p \in Paths |-> Absent]
  /\ NoRun
  /\ disk \in [Dirs -> {NoDotZk, DotZk(TRUE, "none", FALSE),
                        DotZk(TRUE, "user", FALSE)}]
  /\ res = NoRes
  /\ created = {}
  /\ NoConfig
  /\ NoOpen

ContainerNext == OpenNotebook

ContainerSpec == ContainerInit /\ [][ContainerNext]_vars

\* ---------------------------------------------------------------- claims
InIndex == pc \in {"index", "index_return"}

\* The stored version when the last Migrate call began (while no index run
\* has begun since).
StartVersion == txBase.user_version

\* C1: when a statement of an upgrade step failed during Migrate, Migrate
\* returns an error, the database (stored version, schema, rows) is what it
\* was before the call even if earlier steps had run, and Database returns
\* the error without running the indexer.
C1_FailedMigrationLeavesPriorVersion ==
  (failed /\ pc \in {"migrated", "returned"}) =>
    /\ err # ""
    /\ ~txOpen
    /\ store = txBase
    /\ ~indexed
    /\ pc = "returned" => err = "failed to migrate the database"

\* Step 0 -> 1 ran, a later step failed, and Database has returned.
C1_Witness ==
  /\ pc = "returned"
  /\ failed
  /\ Len(applied) >= 1
  /\ StartVersion = 0
  /\ store.user_version = 0

\* C2: the steps a Migrate call applies are consecutive and start at the
\* stored version (none at or below it is re-applied); each is applied
\* inside the transaction the call began, which nothing commits meanwhile;
\* a successful call applied all of them up to 2 -> 3 and leaves the stored
\* version at 3.
C2_StepsAppliedInOrder ==
  /\ [](/\ \A i \in 1..Len(applied) : applied[i] = StartVersion + i - 1
        /\ (pc = "migrated" /\ err = "") =>
             /\ Len(applied) = CurrentVersion - StartVersion
             /\ store.user_version = CurrentVersion
             /\ store.schema = SchemaAt(CurrentVersion))
  /\ [][(applied' # applied /\ applied' # << >>) =>
          /\ txOpen /\ txOpen'
          /\ txBase' = txBase
          /\ store' = store]_vars

\* A successful Migrate of a database of version 0.
C2_Witness ==
  /\ pc = "migrated"
  /\ err = ""
  /\ StartVersion = 0
  /\ Len(applied) = 3

\* C3: a successful Migrate reports needsReindexing exactly when the stored
\* version was <= 2, needsReindexing is set only by the 2 -> 3 step, and the
\* indexer runs with force = forceIndexing or needsReindexing.
C3_MigrationForcesReindexing ==
  /\ (needsReindexing /\ ~indexed) =>
       \E i \in 1..Len(applied) : applied[i] = 2
  /\ (pc = "migrated" /\ err = "") =>
       (needsReindexing <=> StartVersion <= 2)
  /\ indexed => (force <=> (forceIndexing \/ needsReindexing))

\* The index run is forced by the migration alone.
C3_Witness ==
  /\ indexed
  /\ InIndex
  /\ ~forceIndexing
  /\ needsReindexing
  /\ force

\* C4: the database changes only by the commit of a whole transaction whose
\* closure returned no error; an index run that returned a store-level
\* error leaves the database as it was before the run.
C4_IndexRunIsAtomic ==
  /\ []((pc = "returned" /\ indexed /\ indexErr # "") =>
         (store = txBase /\ err = indexErr))
  /\ [][store' # store => /\ txOpen /\ ~txOpen'
                          /\ store' = tx
                          /\ err' = "" /\ indexErr' = ""]_vars

\* An index run changed rows, then failed, and was rolled back.
C4_Witness ==
  /\ pc = "returned"
  /\ indexed
  /\ indexErr = "store error"
  /\ lastStmt.result = "ok"
  /\ store = txBase

\* C5: a query taken during an index run observes the database as it was
\* when the transaction of the run began, and the database other
\* connections read does not change while the transaction is open.
C5_QueriesSeeCommittedState ==
  /\ (observed.taken /\ InIndex) => observed.db = txBase
  /\ txOpen => store = txBase

\* A query taken while the open transaction holds uncommitted changes.
C5_Witness ==
  /\ observed.taken
  /\ pc = "index"
  /\ txOpen
  /\ lastStmt.result = "ok"
  /\ tx # store
  /\ observed.db = store

\* The step is the execution of row statement op.
Executes(op) == stmts' = stmts + 1 /\ lastStmt'.op = op

\* C6: deleting the note n removes its row and every link whose source_id
\* is n; every link of another source note is kept, with its id, title and
\* href, and its target_id becomes null when it was n.
C6_DeleteNoteCascades ==
  [][\A n \in NoteIds(tx) :
       (Executes("DeleteNote") /\ lastStmt'.id = n) =>
         /\ n \notin NoteIds(tx')
         /\ \A m \in tx'.links : m.source_id # n /\ m.target_id # n
         /\ \A l \in tx.links :
              l.source_id # n =>
                \E m \in tx'.links :
                  /\ m.id = l.id
                  /\ m.source_id = l.source_id
                  /\ m.title = l.title
                  /\ m.href = l.href
                  /\ m.target_id = IF l.target_id = n THEN NULL
                                                      ELSE l.target_id
         /\ Cardinality(tx'.links) =
              Cardinality({l \in tx.links : l.source_id # n})]_vars

\* The target of a link of another note was deleted: the link is kept with
\* a null target.
C6_Witness ==
  /\ lastStmt.op = "DeleteNote"
  /\ lastStmt.nulled >= 1
  /\ \E l \in tx.links : l.target_id = NULL /\ l.source_id \in NoteIds(tx)

LinksRefer(s) ==
  \A l \in s.links :
    /\ l.source_id \in NoteIds(s)
    /\ l.target_id # NULL => l.target_id \in NoteIds(s)

\* C7: in the open transaction and in the committed database, every link's
\* source_id is the id of a note row and so is every non-null target_id.
C7_LinksReferToNotes == LinksRefer(tx) /\ LinksRefer(store)

\* A note was deleted and a link with a target is still there.
C7_Witness ==
  /\ lastStmt.op = "DeleteNote"
  /\ \E l \in tx.links : l.target_id # NULL

FtsMirrors(s) ==
  /\ \A r \in s.notes : CopiesIn(FtsEntry(r), s.fts) = 1
  /\ \A e \in BagToSet(s.fts) : \E r \in s.notes : e = FtsEntry(r)

\* C8: the full-text mirror holds exactly one entry per note row, equal to
\* the row's (id, path, title, body), and none for any other id; it changes
\* only in a step that changes the notes table.
C8_FtsMirrorsNotes ==
  /\ [](FtsMirrors(tx) /\ FtsMirrors(store))
  /\ [][/\ tx'.fts # tx.fts => tx'.notes # tx.notes
        /\ store'.fts # store.fts => store'.notes # store.notes]_vars

\* After an insert, a delete and an update that changed a body.
C8_Witness ==
  /\ lastStmt.op = "UpdateNote"
  /\ lastStmt.result = "ok"
  /\ Cardinality(tx.notes) < tx.seq.notes
  /\ \E r \in tx.notes : r.body = "y" /\ r.id = lastStmt.id

UniquePaths(s) ==
  \A r1 \in s.notes : \A r2 \in s.notes : r1.path = r2.path => r1 = r2

\* C9: no two note rows have the same path, and an insert or update that is
\* rejected leaves the notes table and the full-text mirror unchanged.
C9_PathIsUnique ==
  /\ [](UniquePaths(tx) /\ UniquePaths(store))
  /\ [][((Executes("InsertNote") \/ Executes("UpdateNote"))
           /\ lastStmt'.result = "constraint") =>
          (tx'.notes = tx.notes /\ tx'.fts = tx.fts)]_vars

\* An update to the path of another note was rejected.
C9_Witness ==
  /\ lastStmt.op = "UpdateNote"
  /\ lastStmt.result = "constraint"
  /\ Cardinality(tx.notes) = 2

UniqueCollections(s) ==
  \A c1 \in s.collections : \A c2 \in s.collections :
    (c1.kind = c2.kind /\ c1.name = c2.name) => c1 = c2

\* C10: no two collection rows have the same (kind, name), for every kind
\* the collections table accepts.
C10_CollectionsUnique == UniqueCollections(tx) /\ UniqueCollections(store)

UniqueAssociations(s) ==
  \A a1 \in s.notes_collections : \A a2 \in s.notes_collections :
    (a1.note_id = a2.note_id /\ a1.collection_id = a2.collection_id)
      => a1 = a2

\* The rows associating the note of `path` with the tag collection `name`.
AssociationsOf(s, path, name) ==
  {a \in s.notes_collections :
     /\ a.note_id = NoteAt(s, path).id
     /\ a.collection_id = CollectionId(s, name)}

\* C11: under the indexer, no two association rows hold the same (note,
\* collection), in the open transaction and in the committed database; and
\* once an index run has committed, every note file whose content yields a
\* tag, once or several times, is associated with that tag's collection by
\* exactly one row, however often the note was re-indexed.
C11_OneAssociationPerTag ==
  /\ UniqueAssociations(tx)
  /\ UniqueAssociations(store)
  /\ (pc = "returned" /\ prev # "none") =>
       \A path \in Paths :
         files[path] # Absent =>
           \A i \in 1..Len(Hashtags(files[path]) \o Colontags(files[path])) :
             LET name == (Hashtags(files[path]) \o Colontags(files[path]))[i]
             IN /\ Indexed(store, path)
                /\ HasCollection(store, name)
                /\ Cardinality(AssociationsOf(store, path, name)) = 1

\* A note holding `#n` and `:n:` was indexed, then re-indexed, and the run
\* committed: the second association row of the table is the only one.
C11_Witness ==
  /\ pc = "returned"
  /\ prev # "none"
  /\ files["a.md"] = "y"
  /\ store.seq.notes_collections >= 2
  /\ Cardinality(AssociationsOf(store, "a.md", "n")) = 1
  /\ Cardinality(store.notes_collections) = 1

Processed(st) == st.Added + st.Modified + st.Removed

\* C13: during an index run the callback is called once per change applied
\* to the store, in the step that applies it (on the thread driving the
\* open transaction) and in the order of application, whatever order the
\* parsing workers finished in: the bar counts the processed changes, each
\* call adds exactly one, and the bar is cleared once, in the step that
\* ends the transaction, whether the run succeeded or failed.
C13_ProgressFollowsAppliedChanges ==
  /\ [](pc = "indexing" =>
          /\ progress = SubSeq(changes, 1, done)
          /\ bar.n = done
          /\ Processed(stats) = done
          /\ bar.cleared = 0)
  /\ []((pc = "returned" /\ indexed) =>
          /\ bar.n = Len(progress)
          /\ bar.n = Processed(stats)
          /\ bar.cleared = 1)
  /\ [][bar'.n > bar.n =>
          /\ bar'.n = bar.n + 1
          /\ txOpen /\ txOpen'
          /\ done' = done + 1
          /\ progress' = Append(progress, changes[done'])
          /\ bar'.description = changes[done']]_vars
  /\ [][bar'.cleared > bar.cleared =>
          /\ bar'.cleared = 1
          /\ txOpen /\ ~txOpen']_vars

\* The worker of the second change finished first; both changes are applied
\* and reported in the order of the diff.
C13_Witness ==
  /\ pc = "indexing"
  /\ parsed = <<2, 1>>
  /\ done = 2
  /\ progress = changes
  /\ bar.n = 2

\* The directory itself and its parent directories, up to "/".
Ancestors(path) == {SubSeq(path, 1, n) : n \in 0..Len(path)}

\* The directories among them that hold a `.zk` directory.
Holders(f, path) == {d \in Ancestors(path) : f[d].zk}

Nearest(ds) == CHOOSE d \in ds : \A e \in ds : Len(e) <= Len(d)

\* locateRoot returned a root to Open.
Located(r) == r.err = NoErr \/ r.err.kind = "config not found"

\* C14: when no I/O error occurs, a call Open(p) locates a notebook exactly
\* when p, made absolute, or one of its parent directories holds a `.zk`
\* directory; the root of the Zk it returns is the nearest such directory;
\* and when it locates none its error is ErrNotebookNotFound of the absolute
\* path.
C14_OpenLocatesNearestRoot ==
  (res.op = "Open" /\ ~res.io) =>
    LET path == Abs(res.path) IN
    /\ Located(res) <=> Holders(disk, path) # {}
    /\ res.err = NoErr => res.root = Nearest(Holders(disk, path))
    /\ ~Located(res) =>
         res.err = Wrap("open failed", ErrNotebookNotFound(path))

\* C19: when no I/O error occurs, Create(path) fails with "a notebook already
\* exists" and leaves the file tree as it was whenever path or one of its
\* parent directories holds a `.zk` directory; a Create that returned nil
\* has written config.toml and templates/default.md; an Open of a path
\* Create returned nil for succeeds with that path as root; and Create
\* fails for such a path.
C19_CreateRefusesExistingNotebook ==
  /\ []((res.op = "Create" /\ res.err = NoErr) =>
          /\ disk[Abs(res.path)].config = "default"
          /\ disk[Abs(res.path)].template)
  /\ []((res.op = "Open" /\ ~res.io /\ Abs(res.path) \in created) =>
          /\ res.err = NoErr
          /\ res.root = Abs(res.path))
  /\ [][(res'.op = "Create" /\ ~res'.io) =>
          /\ Holders(disk, Abs(res'.path)) # {} =>
               /\ res'.err.kind = "a notebook already exists"
               /\ disk' = disk
          /\ Abs(res'.path) \in created => res'.err # NoErr]_vars

\* The cases the output is not paged in: paging is turned off, the document
\* sets `pager` to the empty string, or the terminal is not interactive.
WritesThrough == out.noPager \/ doc.pager = "" \/ ~out.interactive

\* The pager of the user: the one the document names, the default one when
\* the document names none.
UserPager ==
  [kind |-> "Pager",
   command |-> [null |-> doc.pager = Unset,
                value |-> IF doc.pager = Unset THEN "" ELSE doc.pager]]

RunThenClose == <<"run", "Close">>

\* C15, as stated: Paginate writes through the passthrough pager when
\* noPager is true, the pager is set to "" or the terminal is not
\* interactive, and to the pager of the user otherwise, a pager that is not
\* set included; in every case run is called, the pager is closed after it,
\* and the error of run is returned.
C15_PagerClosedInEveryCase ==
  out.op = "Paginate" =>
    /\ out.result.pager = IF WritesThrough THEN PassthroughPager ELSE UserPager
    /\ out.result.calls = RunThenClose
    /\ out.result.err = out.runErr

\* C15, amended: the same choice of pager; when the pager of the user cannot
\* be started Paginate returns that error and calls neither run nor Close;
\* in every other case run is called, the pager is closed after it, and the
\* error of run is returned.
C15_PagerClosedWhenStarted ==
  out.op = "Paginate" =>
    IF ~WritesThrough /\ out.fails
      THEN /\ out.result.pager = NilPager
           /\ out.result.calls = << >>
           /\ out.result.err = Err("pager failed", NoPath)
      ELSE /\ out.result.pager =
                IF WritesThrough THEN PassthroughPager ELSE UserPager
           /\ out.result.calls = RunThenClose
           /\ out.result.err = out.runErr

\* An interactive run with paging on wrote through for the only reason that
\* the document sets `pager = ""`, and returned the error of run.
C15_Witness ==
  /\ out.op = "Paginate"
  /\ doc.pager = ""
  /\ ~out.noPager
  /\ out.interactive
  /\ out.result.pager = PassthroughPager
  /\ out.result.calls = RunThenClose
  /\ out.runErr # NoErr
  /\ out.result.err = out.runErr

\* DirAt was called without group override on a directory of the notebook.
DirAtWithoutOverride ==
  /\ out.op = "DirAt"
  /\ \A i \in DOMAIN out.overrides : out.overrides[i].Group.null
  /\ out.dir.err.kind # "path is outside the notebook"

\* The patterns a group of the document is declared with: its `paths`, or
\* its name when it has none.
PatternsOf(g) ==
  IF doc.group[g].paths.set THEN doc.group[g].paths.list ELSE <<g>>

\* The declared groups one of whose patterns matches the name.
GroupsMatching(name) ==
  {g \in GroupNames :
     /\ doc.group[g].declared
     /\ \E i \in DOMAIN PatternsOf(g) : Matches(PatternsOf(g)[i], name)}

\* No group of the document has a malformed pattern.
WellFormedPatterns ==
  \A g \in GroupNames : \A i \in DOMAIN PatternsOf(g) :
    \A j \in DOMAIN PatternsOf(g)[i] : PatternsOf(g)[i][j] # "["

\* C16: with no group override and no malformed pattern, DirAt returns the
\* config of the group declared without `paths` whose name is the name of
\* the directory, the config of a group one of whose patterns matches the
\* directory, and the root group config for a directory no group matches.
C16_DirAtReturnsMatchingGroup ==
  DirAtWithoutOverride /\ WellFormedPatterns =>
    /\ out.dir.err = NoErr
    /\ \A g \in GroupNames :
         doc.group[g].declared /\ ~doc.group[g].paths.set
           /\ g = out.dir.name
         => out.dir.config = conf.Groups[g]
    /\ \A g \in GroupsMatching(out.dir.name) :
         out.dir.config = conf.Groups[g]
    /\ GroupsMatching(out.dir.name) = {}
         => out.dir.config = RootGroupConfig(conf)

\* What DirAt keeps of it: the config returned is the one of some group
\* matching the directory, and the root group config when there is none.
DirAtReturnsSomeMatchingGroup ==
  DirAtWithoutOverride /\ WellFormedPatterns =>
    /\ out.dir.err = NoErr
    /\ IF GroupsMatching(out.dir.name) = {}
         THEN out.dir.config = RootGroupConfig(conf)
         ELSE \E g \in GroupsMatching(out.dir.name) :
                out.dir.config = conf.Groups[g]

\* The value a property of the document is read as.
ValueOf(k, v) == IF k = "id-case" /\ v = "unknown" THEN "lower" ELSE v

\* C17: in a parsed configuration every note setting of a group is the value
\* the group sets, and the root [note] value when the group does not set it;
\* the extra map of a group is the root [extra] map with the entries of the
\* group laid over it; the root settings are those of the document without
\* its groups.
C17_GroupsInheritRootSettings ==
  conf.parsed =>
    /\ DOMAIN conf.Groups = {g \in GroupNames : doc.group[g].declared}
    /\ \A g \in DOMAIN conf.Groups :
         /\ \A k \in NoteKeys :
              conf.Groups[g].Note[k] =
                IF doc.group[g].note[k] = Unset
                  THEN conf.Note[k]
                  ELSE ValueOf(k, doc.group[g].note[k])
         /\ \A k \in ExtraKeys :
              conf.Groups[g].Extra[k] =
                IF doc.group[g].extra[k] = Unset
                  THEN conf.Extra[k]
                  ELSE doc.group[g].extra[k]
    /\ \A k \in NoteKeys :
         conf.Note[k] = IF doc.note[k] = Unset THEN NewDefaultConfig.Note[k]
                                               ELSE ValueOf(k, doc.note[k])
    /\ \A k \in ExtraKeys : conf.Extra[k] = doc.extra[k]

\* The document of TestParseMergesGroupConfig was parsed: group log has its
\* own filename and the extension of the root, and its extra map overrides
\* `hello`, inherits `salut` and adds `log-ext`, the root keeping its own.
C17_Witness ==
  /\ conf.parsed
  /\ doc.note = RootNote
  /\ doc.extra = RootExtra
  /\ doc.group[log] = Group(NoPaths, LogNote, LogExtra)
  /\ conf.Groups[log].Note["filename"] = "log-filename"
  /\ conf.Groups[log].Note["extension"] = "txt"
  /\ conf.Groups[log].Note["id-case"] = "lower"
  /\ conf.Groups[log].Extra["hello"] = "override"
  /\ conf.Groups[log].Extra["salut"] = "le monde"
  /\ conf.Groups[log].Extra["log-ext"] = "value"
  /\ conf.Note["filename"] = "root-filename"
  /\ conf.Note["id-case"] = "upper"
  /\ conf.Extra["hello"] = "world"
  /\ conf.Extra["log-ext"] = Unset

\* Both opens of the i-th search path of the call succeed.
Succeeds(i) ==
  /\ ~opened.fails[i]
  /\ Open(disk, opened.bad, opened.searchPaths[i], GlobalConfig).err = NoErr

\* The zk.Open of the i-th search path of the call.
ZkOf(i) == Open(disk, opened.bad, opened.searchPaths[i], GlobalConfig)

\* C18: OpenNotebook tries the search paths in their order up to the first
\* one both opens succeed on, and WorkingDir, Config and ZK_NOTEBOOK_DIR are
\* then those of that path; when no path succeeds every path was tried,
\* WorkingDir, Config and the environment are as before, and Notebook() and
\* Zk() return the errors of the last path; an empty list panics.
C18_OpenNotebookStopsAtFirstNotebook ==
  /\ opened.op = "panic" <=> opened.op # "" /\ opened.searchPaths = << >>
  /\ opened.op = "panic" =>
       container = NewContainer /\ environ = NoPath /\ opened.tried = << >>
  /\ opened.op = "OpenNotebook" =>
       LET n == Len(opened.searchPaths)
           found == {i \in 1..n : Succeeds(i)}
       IN IF found # {}
            THEN LET k == CHOOSE i \in found : \A j \in found : i <= j IN
                 /\ opened.tried = SubSeq(opened.searchPaths, 1, k)
                 /\ container.WorkingDir = opened.searchPaths[k]
                 /\ container.Config = ZkOf(k).zk.Config
                 /\ environ = ZkOf(k).zk.Path
                 /\ Zk(container) = ZkOf(k)
                 /\ Notebook(container).err = NoErr
                 /\ Notebook(container).notebook.path = opened.searchPaths[k]
            ELSE /\ opened.tried = opened.searchPaths
                 /\ container.WorkingDir = NoWorkingDir
                 /\ container.Config = GlobalConfig
                 /\ environ = NoPath
                 /\ Zk(container).err = ZkOf(n).err
                 /\ Zk(container).err # NoErr \/ opened.fails[n]
                 /\ (Notebook(container).err # NoErr) = opened.fails[n]

\* The first of two search paths holds no notebook and the second one does:
\* both were tried and the second one is the working directory.
C18_Witness ==
  /\ opened.op = "OpenNotebook"
  /\ Len(opened.searchPaths) = 2
  /\ ~Succeeds(1)
  /\ Succeeds(2)
  /\ opened.tried = opened.searchPaths
  /\ container.WorkingDir = opened.searchPaths[2]
  /\ container.WorkingDir # opened.searchPaths[1]
  /\ container.Config.file = "user"
  /\ environ = container.zk.Path

====
